---- MODULE Spec2Model ----
(***************************************************************************)
(* A model of libs/RSyncBackup.py: the archive trimmer (trimArchives with  *)
(* pathWalker and pathRemover) over a small POSIX file tree, and the       *)
(* last-run bookkeeping (timeToBackup).                                    *)
(*                                                                         *)
(* Path strings are sequences of character codes, so that os.path.join,    *)
(* os.path.split, list.sort and re.search are modelled on the characters   *)
(* they work on.  os.path.walk is the Python 2 library function            *)
(* (listdir, callback, then recursion into the sub-directories).           *)
(***************************************************************************)
EXTENDS Integers, Sequences, FiniteSets, TLC

VARIABLES
    dirs,                \* the directories that exist (path strings)
    files,               \* the regular files that exist (path strings)
    denied,              \* paths whose unlink/rmdir the OS refuses (EACCES)
    filter,              \* trimArchives argument: "default" or a compiled custom regex
    entriesToKeep,       \* trimArchives argument
    removeParentIfEmpty, \* trimArchives argument
    testRun,             \* RSyncBackup.testRun
    pc,                  \* position of the caller / of trimArchives
    pathsToTrim,         \* trimArchives local
    idx,                 \* 1-based position of the for loop in pathsToTrim
    lastParent,          \* trimArchives local of the while loop
    toVisit,             \* os.path.walk: directories whose visit is pending
    names,               \* os.path.walk: listdir result of the directory in walking()
    pos,                 \* pathRemover.walking: 1-based position in names
    dirsToRemove,        \* pathRemover.dirsToRemove
    err,                 \* the OSError that left trimArchives, or "none"
    run,                 \* number of trimArchives calls made
    hist,                \* observation record of the runs (not program state)
    lrf,                 \* content of the last-run file
    clock,               \* seconds since the epoch (UTC)
    lrfBefore,           \* content of the last-run file when timeToBackup was called
    zone,                \* the local time zone: its standard offset, and whether it keeps
                         \* daylight saving time (the scheduling part then lies within it)
    ticks,               \* number of clock advances so far
    backupStarted,       \* RSyncBackup.backupStarted (UTC broken-down time)
    result,              \* value returned by the timeToBackup call just made, else -1
    interval,            \* backupInterval of that call
    archives,            \* the backup() calls made: instant and thisArchive of each
    obs                  \* observation of the timeToBackup and finish calls (not program state)

fsVars    == <<dirs, files>>
argVars   == <<denied, filter, entriesToKeep, removeParentIfEmpty, testRun>>
trimVars  == <<pc, pathsToTrim, idx, lastParent, toVisit, names, pos, dirsToRemove, err, run, hist>>
schedVars == <<lrf, lrfBefore, clock, zone, ticks, backupStarted, result, interval, archives, obs>>
vars      == <<fsVars, argVars, trimVars, schedVars>>

-----------------------------------------------------------------------------
(* Bounds of the model *)

MaxKeep    == 3     \* entriesToKeep ranges over -MaxNegKeep .. MaxKeep
MaxNegKeep == 1
MaxRuns    == 2     \* successive trimArchives calls with the same arguments
MaxTicks   == 3     \* clock advances in a behaviour of the scheduling part
MaxBackups == 2     \* backup() calls in a behaviour of the naming part

-----------------------------------------------------------------------------
(* Character strings *)

Sep   == <<47>>                      \* "/"
Digit == 48 .. 57                    \* "0" .. "9"
NL    == <<10>>                      \* "\n"

DigitStr(ds) == [i \in 1 .. Len(ds) |-> 48 + ds[i]]

\* Python's str comparison, used by list.sort: the first differing character
\* decides; a proper prefix is smaller.
StrLess(a, b) ==
    \E i \in 1 .. Len(b) :
        /\ i <= Len(a) + 1
        /\ \A j \in 1 .. (i - 1) : a[j] = b[j]
        /\ \/ i = Len(a) + 1
           \/ a[i] < b[i]

Last(s) == s[Len(s)]

\* posixpath.join(a, b)
Join(a, b) ==
    IF Len(b) > 0 /\ b[1] = Sep[1] THEN b
    ELSE IF a = <<>> \/ Last(a) = Sep[1] THEN a \o b
    ELSE a \o Sep \o b

\* str.rfind("/") + 1: the length of the part up to and including the last "/"
RFindSep(p) ==
    LET S == {i \in 1 .. Len(p) : p[i] = Sep[1]}
    IN  IF S = {} THEN 0 ELSE CHOOSE i \in S : \A j \in S : j <= i

RECURSIVE RStripSep(_)
RStripSep(s) ==
    IF s # <<>> /\ Last(s) = Sep[1] THEN RStripSep(SubSeq(s, 1, Len(s) - 1)) ELSE s

\* posixpath.split(p)[0]
SplitHead(p) ==
    LET head == SubSeq(p, 1, RFindSep(p))
    IN  IF head # <<>> /\ (\E i \in 1 .. Len(head) : head[i] # Sep[1])
        THEN RStripSep(head)
        ELSE head

-----------------------------------------------------------------------------
(* Regular expressions: a sequence of character classes, searched anywhere  *)
(* in the string (re.search), optionally anchored by a trailing "$".        *)

Lit(s) == [i \in 1 .. Len(s) |-> {s[i]}]
Rep(class, n) == [i \in 1 .. n |-> class]

MatchesAt(re, s, start) ==
    LET n == Len(re.atoms)
    IN  /\ start + n - 1 <= Len(s)
        /\ \A i \in 1 .. n : s[start + i - 1] \in re.atoms[i]
        /\ re.dollar =>
              \/ start + n - 1 = Len(s)
              \/ start + n - 1 = Len(s) - 1 /\ Last(s) = NL[1]

Search(re, s) == \E start \in 1 .. (Len(s) + 1) : MatchesAt(re, s, start)

Reverse(s) == [i \in 1 .. Len(s) |-> s[Len(s) + 1 - i]]

\* list.sort() on path strings
Sort(s) == SortSeq(s, LAMBDA a, b : StrLess(a, b))

\* seq[0:stop] with Python's slice rules: a negative stop counts from the
\* end, and both ends are clipped to the list.
PySlice(s, stop) ==
    LET n == Len(s)
        e == IF stop < 0
             THEN (IF n + stop < 0 THEN 0 ELSE n + stop)
             ELSE (IF stop > n THEN n ELSE stop)
    IN  SubSeq(s, 1, e)

RECURSIVE SeqOf(_)
SeqOf(S) ==
    IF S = {} THEN <<>>
    ELSE LET m == CHOOSE x \in S : \A y \in S : x = y \/ StrLess(x, y)
         IN  <<m>> \o SeqOf(S \ {m})

Orderings(S) == {q \in [1 .. Cardinality(S) -> S] : \A x \in S : \E i \in DOMAIN q : q[i] = x}

-----------------------------------------------------------------------------
(* The file tree *)

Root       == Sep
Etc        == Join(Root, <<101>>)                     \* "/e", always present
R          == Join(Root, <<114>>)                     \* "/r"
ArchiveDir == Join(R, <<97>>)                         \* "/r/a", the archiveDir argument
Dash       == <<45>>
Stamp(dd, mm) == DigitStr(dd \o mm \o <<2, 0, 2, 1>>) \o Dash \o DigitStr(<<1, 2, 0, 0, 0, 0>>)
Y      == Join(ArchiveDir, DigitStr(<<2, 0, 2, 1>>))  \* /r/a/2021
M1     == Join(Y, DigitStr(<<0, 1>>))                 \* /r/a/2021/01
M2     == Join(Y, DigitStr(<<0, 2>>))                 \* /r/a/2021/02
S1     == Join(M1, Stamp(<<0, 1>>, <<0, 1>>))         \* /r/a/2021/01/01012021-120000
S2     == Join(M1, Stamp(<<0, 2>>, <<0, 1>>))         \* /r/a/2021/01/02012021-120000
S3     == Join(M2, Stamp(<<0, 1>>, <<0, 2>>))         \* /r/a/2021/02/01022021-120000
F1     == Join(S1, <<102>>)                           \* file  S1/f
D1     == Join(S1, <<100>>)                           \* dir   S1/d
E1     == Join(D1, <<101>>)                           \* dir   S1/d/e
F2     == Join(S2, <<102>>)                           \* file  S2/f
README == Join(M1, <<82, 69, 65, 68, 77, 69>>)        \* file  /r/a/2021/01/README

Permanent  == {Root, Etc, R, ArchiveDir}
DirLeaves  == {S1, E1, S2, S3}
FileLeaves == {F1, F2, README}

RECURSIVE Ancestors(_)
Ancestors(p) ==
    LET h == SplitHead(p) IN IF h = p THEN {} ELSE {h} \cup Ancestors(h)

\* p is d or lies beneath d
Within(p, d) == p = d \/ d \in Ancestors(p)

Exists(p) == p \in dirs \cup files
IsDir(p)  == p \in dirs                                \* os.path.isdir
\* os.listdir(d), as full paths join(d, name)
Listdir(d) == {p \in dirs \cup files : p # d /\ SplitHead(p) = d}

\* errno of os.rmdir(d), "none" when it succeeds
RmdirErr(d) ==
    IF d \in files THEN "ENOTDIR"
    ELSE IF d \notin dirs THEN "ENOENT"
    ELSE IF Listdir(d) # {} THEN "ENOTEMPTY"
    ELSE IF d = Root THEN "EBUSY"
    ELSE IF d \in denied THEN "EACCES"
    ELSE "none"

\* errno of os.remove(p), "none" when it succeeds
RemoveErr(p) ==
    IF p \in dirs THEN "EISDIR"
    ELSE IF p \notin files THEN "ENOENT"
    ELSE IF p \in denied THEN "EACCES"
    ELSE "none"

-----------------------------------------------------------------------------
(* trimArchives: filter, walk, sort, slice *)

NoFilter   == [none |-> TRUE, atoms |-> <<>>, dollar |-> FALSE]
\* custom filters: the regex "-120000" and the regex "/[af]$"; the second one
\* matches the files named f, and the path of archiveDir itself
StampTail  == [none |-> FALSE, atoms |-> Lit(Dash \o DigitStr(<<1, 2, 0, 0, 0, 0>>)), dollar |-> FALSE]
FileNamedF == [none |-> FALSE, atoms |-> Lit(Sep) \o <<{97, 102}>>, dollar |-> TRUE]
Filters    == {NoFilter, StampTail, FileNamedF}

\* lines 128-134: the compiled name filter
NameFilter(archiveDir, f) ==
    IF f.none
    THEN [atoms  |-> Lit(archiveDir) \o Lit(Sep) \o Rep(Digit, 4) \o Lit(Sep) \o Rep(Digit, 2)
                       \o Lit(Sep) \o Rep(Digit, 8) \o Lit(Dash) \o Rep(Digit, 6),
          dollar |-> TRUE]
    ELSE [atoms |-> f.atoms, dollar |-> f.dollar]

\* a slip that tests the directory walked, and of its entries only the files
RECURSIVE WalkFoundWithTop(_, _)
WalkFoundWithTop(re, top) ==
    IF top \notin dirs THEN <<>>
    ELSE LET ns == SeqOf(Listdir(top))
             RECURSIVE Below(_)
             Below(i) == IF i > Len(ns) THEN <<>>
                         ELSE (IF IsDir(ns[i]) THEN WalkFoundWithTop(re, ns[i]) ELSE <<>>) \o Below(i + 1)
         IN  (IF Search(re, top) THEN <<top>> ELSE <<>>)
                 \o SelectSeq(ns, LAMBDA p : ~IsDir(p) /\ Search(re, p)) \o Below(1)

\* pathWalker.walk: os.path.walk calls walking(dirname, names) for the top
\* directory and then for every directory beneath it; walking appends the
\* matching join(dirname, name).  listdir's order is taken ascending: the
\* caller sorts the result.
RECURSIVE WalkFound(_, _)
WalkFound(re, top) ==
    IF top \notin dirs THEN <<>>
    ELSE LET ns == SeqOf(Listdir(top))
             RECURSIVE Below(_)
             Below(i) == IF i > Len(ns) THEN <<>>
                         ELSE (IF IsDir(ns[i]) THEN WalkFound(re, ns[i]) ELSE <<>>) \o Below(i + 1)
         IN  SelectSeq(ns, LAMBDA p : Search(re, p)) \o Below(1)

\* lines 135-138
MatchingPaths == Sort(WalkFound(NameFilter(ArchiveDir, filter), ArchiveDir))

\* a slip that keeps the oldest entries and selects the newest ones
SelectNewest(matchingPaths, keep) ==
    LET n == Len(PySlice(matchingPaths, (-1) * keep))
    IN  SubSeq(matchingPaths, Len(matchingPaths) - n + 1, Len(matchingPaths))

\* a slip that drops the minus sign: matchingPaths[0:entriesToKeep]
SelectFirstKeep(matchingPaths, keep) == PySlice(matchingPaths, keep)

\* line 140: matchingPaths[0:-1 * entriesToKeep]
SelectForRemoval(matchingPaths, keep) == PySlice(matchingPaths, (-1) * keep)

\* a slip that leaves out the reverse
RemovalOrderAsSeen(seen) == seen

\* line 203: dirsToRemove.reverse()
RemovalOrder(seen) == Reverse(seen)

\* a slip that leaves out the emptiness test
IsEmptyDirAlways(parent) == TRUE

\* a slip that never finds the parent empty
IsEmptyDirNever(parent) == FALSE

\* line 159: len (os.listdir (parent)) == 0
IsEmptyDir(parent) == Cardinality(Listdir(parent)) = 0

-----------------------------------------------------------------------------
(* Initial states *)

KeepValues == (0 - MaxNegKeep) .. MaxKeep

TreeOf(leaves) ==
    [d |-> Permanent \cup (leaves \cap DirLeaves) \cup UNION {Ancestors(p) : p \in leaves},
     f |-> leaves \cap FileLeaves]

DeniedChoices == {{}, {F1}, {S1}, {S2}}

\* time.gmtime(): the broken-down UTC time; wall is its fields counted in
\* seconds, and gmtime sets tm_isdst to 0
Gmtime == [wall |-> clock, isdst |-> 0]
\* time.asctime(t) prints the date and time fields to the second, and no DST flag
AscTime(t) == [kind |-> "text", parses |-> TRUE, wall |-> t.wall]
\* time.strptime(s) reads them back, and leaves tm_isdst unknown (-1)
StrpTime(s) == [wall |-> s.wall, isdst |-> -1]
\* time.mktime(t) reads t as local time: with tm_isdst = -1 the zone's rules
\* decide whether the hour of daylight saving is taken off, with tm_isdst = 0
\* it is not
Mktime(t) ==
    t.wall - zone.std - (IF t.isdst = 1 \/ (t.isdst = -1 /\ zone.dst) THEN 3600 ELSE 0)

Absent   == [kind |-> "absent", parses |-> FALSE, wall |-> 0]
NoAccess == [kind |-> "noaccess", parses |-> FALSE, wall |-> 0]
Garbage  == [kind |-> "text", parses |-> FALSE, wall |-> 0]
Zones    == {[std |-> 0, dst |-> FALSE], [std |-> 3600, dst |-> FALSE], [std |-> 3600, dst |-> TRUE]}
Intervals  == {0, 1, 60}          \* minutes
TickSteps  == {1, 60, 3600}       \* seconds

\* no timeToBackup call has returned true yet
Obs0 ==
    [t |-> -1,              \* the clock at the latest true return of timeToBackup
     fin |-> FALSE,         \* finish() was called since
     last |-> -1]           \* the t of the true return before, if finish() followed it

\* the observation record before the first call
Hist0 ==
    [dirs0 |-> dirs, files0 |-> files,      \* the tree at the start
     matched |-> <<>>,                      \* matchingPaths of the latest call, sorted
     selected |-> {},                       \* every path selected by some call
     attempted |-> {},                      \* selected paths the latest call's loop reached
     removed |-> {},                        \* selected paths whose removal completed
     pruned |-> {},                         \* directories removed by line 163
     before |-> [d |-> {}, f |-> {}],       \* the tree when the loop took the current path
     raisedAt |-> "none",                   \* the position at which the OSError was raised
     atRaise |-> [d |-> {}, f |-> {}],      \* the tree when it was raised
     end1 |-> [d |-> {}, f |-> {}],         \* the tree when the first call ended
     ok1 |-> FALSE]                         \* the first call returned normally

SchedIdle ==
    /\ lrf = Absent
    /\ lrfBefore = Absent
    /\ clock = 0
    /\ zone = [std |-> 0, dst |-> FALSE]
    /\ ticks = 0
    /\ backupStarted = Gmtime
    /\ result = -1
    /\ interval = 0
    /\ archives = <<>>
    /\ obs = Obs0

Init ==
    /\ \E leaves \in SUBSET (DirLeaves \cup FileLeaves) :
          /\ dirs = TreeOf(leaves).d
          /\ files = TreeOf(leaves).f
    /\ filter \in Filters
    /\ entriesToKeep \in KeepValues
    /\ removeParentIfEmpty \in {0, 1}
    /\ testRun \in {0, 1}
    /\ denied \in (IF testRun = 1 THEN {{}} ELSE DeniedChoices)
    /\ pc = "idle"
    /\ pathsToTrim = <<>>
    /\ idx = 1
    /\ lastParent = <<>>
    /\ toVisit = <<>>
    /\ names = <<>>
    /\ pos = 1
    /\ dirsToRemove = <<>>
    /\ err = "none"
    /\ run = 0
    /\ hist = Hist0
    /\ SchedIdle

-----------------------------------------------------------------------------
(* trimArchives, one action per step *)

PathToRemove == pathsToTrim[idx]

Range(s) == {s[i] : i \in DOMAIN s}
Tree == [d |-> dirs, f |-> files]

\* a handler that notes the error and goes on with the next path
RaiseLogAndContinue(e) ==
    /\ err' = e
    /\ pc' = "loop"
    /\ idx' = idx + 1
    /\ hist' = hist

\* a handler around the for loop that drops the error: trimArchives returns
RaiseSwallowed(e) ==
    /\ err' = "none"
    /\ pc' = "done"
    /\ idx' = idx
    /\ hist' = [hist EXCEPT !.end1 = IF run = 1 THEN Tree ELSE @]

\* lines 142-167 hold no try: an OSError raised by os.remove, os.rmdir or
\* os.listdir leaves the for loop and trimArchives at once
Raise(e) ==
    /\ err' = e
    /\ pc' = "raised"
    /\ idx' = idx
    /\ hist' = [hist EXCEPT !.raisedAt = pc,
                            !.atRaise = Tree,
                            !.end1 = IF run = 1 THEN Tree ELSE @]

\* a slip that removes in a test run too
RemovalNeverSkipped == FALSE

\* line 143: if (self.testRun): pass
RemovalSkipped == testRun # 0

\* line 160: if (self.testRun): pass
PruneSkipped == testRun # 0

\* a slip that leaves out the test of removeParentIfEmpty
AfterRemovalAlwaysPrune ==
    /\ lastParent' = PathToRemove
    /\ pc' = "parent"
    /\ idx' = idx

\* lines 151-153: after the removal of pathToRemove (or its omission in a test run)
AfterRemoval ==
    IF removeParentIfEmpty # 0
    THEN /\ lastParent' = PathToRemove
         /\ pc' = "parent"
         /\ idx' = idx
    ELSE /\ lastParent' = lastParent
         /\ pc' = "loop"
         /\ idx' = idx + 1

\* lines 128-141: compile the filter, walk, sort, slice
TrimArchives ==
    /\ \/ pc = "idle"
       \/ pc \in {"done", "raised"} /\ run < MaxRuns
    /\ pathsToTrim' = SelectForRemoval(MatchingPaths, entriesToKeep)
    /\ idx' = 1
    /\ dirsToRemove' = <<>>
    /\ err' = "none"
    /\ run' = run + 1
    /\ pc' = "loop"
    /\ hist' = [hist EXCEPT !.matched = MatchingPaths, !.attempted = {},
                            !.selected = @ \cup Range(pathsToTrim')]
    /\ UNCHANGED <<fsVars, argVars, schedVars, lastParent, toVisit, names, pos>>

\* lines 142-146: the for loop takes the next path, or trimArchives returns
ForLoop ==
    /\ pc = "loop"
    /\ IF idx > Len(pathsToTrim)
       THEN /\ pc' = "done"
            /\ hist' = IF run = 1 THEN [hist EXCEPT !.end1 = Tree, !.ok1 = TRUE] ELSE hist
            /\ UNCHANGED <<idx, lastParent, toVisit>>
       ELSE /\ hist' = [hist EXCEPT !.attempted = @ \cup {PathToRemove}, !.before = Tree]
            /\ IF RemovalSkipped
               THEN AfterRemoval /\ UNCHANGED toVisit
               ELSE IF IsDir(PathToRemove)
               THEN /\ toVisit' = <<PathToRemove>>
                    /\ pc' = "visit"
                    /\ UNCHANGED <<idx, lastParent>>
               ELSE /\ pc' = "remove"
                    /\ UNCHANGED <<idx, lastParent, toVisit>>
    /\ UNCHANGED <<fsVars, argVars, schedVars, pathsToTrim, names, pos, dirsToRemove, err, run>>

\* line 150: os.remove (pathToRemove)
RemovePath ==
    /\ pc = "remove"
    /\ IF RemoveErr(PathToRemove) = "none"
       THEN /\ files' = files \ {PathToRemove}
            /\ AfterRemoval
            /\ hist' = [hist EXCEPT !.removed = @ \cup {PathToRemove}]
            /\ UNCHANGED err
       ELSE /\ Raise(RemoveErr(PathToRemove))
            /\ UNCHANGED <<files, lastParent>>
    /\ UNCHANGED <<dirs, argVars, schedVars, pathsToTrim, toVisit, names, pos, dirsToRemove, run>>

\* lines 200-203 with os.path.walk: list the next directory and hand its names
\* to walking(); when no directory is left, reverse dirsToRemove
WalkVisit ==
    /\ pc = "visit"
    /\ IF toVisit = <<>>
       THEN /\ dirsToRemove' = RemovalOrder(dirsToRemove)
            /\ pc' = "rmdirs"
            /\ UNCHANGED <<toVisit, names, pos>>
       ELSE /\ toVisit' = Tail(toVisit)
            /\ IF Head(toVisit) \in dirs
               THEN /\ names' \in Orderings(Listdir(Head(toVisit)))
                    /\ pos' = 1
                    /\ pc' = "walking"
               ELSE UNCHANGED <<names, pos, pc>>
            /\ UNCHANGED dirsToRemove
    /\ UNCHANGED <<fsVars, argVars, schedVars, pathsToTrim, idx, lastParent, err, run, hist>>

\* lines 208-214: walking() handles one name; after the last one os.path.walk
\* goes on into the directories among the names
Walking ==
    /\ pc = "walking"
    /\ IF pos > Len(names)
       THEN /\ toVisit' = SelectSeq(names, IsDir) \o toVisit
            /\ pc' = "visit"
            /\ UNCHANGED <<files, pos, dirsToRemove, err, idx, hist>>
       ELSE IF IsDir(names[pos])
       THEN /\ dirsToRemove' = Append(dirsToRemove, names[pos])
            /\ pos' = pos + 1
            /\ UNCHANGED <<files, toVisit, pc, err, idx, hist>>
       ELSE IF RemoveErr(names[pos]) = "none"
       THEN /\ files' = files \ {names[pos]}
            /\ pos' = pos + 1
            /\ UNCHANGED <<toVisit, pc, dirsToRemove, err, idx, hist>>
       ELSE /\ Raise(RemoveErr(names[pos]))
            /\ UNCHANGED <<files, toVisit, pos, dirsToRemove>>
    /\ UNCHANGED <<dirs, argVars, schedVars, pathsToTrim, lastParent, names, run>>

\* lines 204-206: os.rmdir of the next directory seen, or the end of the loop
RmdirSeen ==
    /\ pc = "rmdirs"
    /\ IF dirsToRemove = <<>>
       THEN /\ pc' = "rmdirPath"
            /\ UNCHANGED <<dirs, dirsToRemove, err, idx, hist>>
       ELSE IF RmdirErr(Head(dirsToRemove)) = "none"
       THEN /\ dirs' = dirs \ {Head(dirsToRemove)}
            /\ dirsToRemove' = Tail(dirsToRemove)
            /\ UNCHANGED <<pc, err, idx, hist>>
       ELSE /\ Raise(RmdirErr(Head(dirsToRemove)))
            /\ UNCHANGED <<dirs, dirsToRemove>>
    /\ UNCHANGED <<files, argVars, schedVars, pathsToTrim, lastParent, toVisit, names, pos, run>>

\* line 148: os.rmdir (pathToRemove)
RmdirPath ==
    /\ pc = "rmdirPath"
    /\ IF RmdirErr(PathToRemove) = "none"
       THEN /\ dirs' = dirs \ {PathToRemove}
            /\ AfterRemoval
            /\ hist' = [hist EXCEPT !.removed = @ \cup {PathToRemove}]
            /\ UNCHANGED err
       ELSE /\ Raise(RmdirErr(PathToRemove))
            /\ UNCHANGED <<dirs, lastParent>>
    /\ UNCHANGED <<files, argVars, schedVars, pathsToTrim, toVisit, names, pos, dirsToRemove, run>>

\* a slip that leaves out the assignment
NewLastParentStale(parent) == lastParent

\* line 165: lastParent = parent
NewLastParent(parent) == parent

\* lines 154-167: one turn of the while loop
ParentStep ==
    /\ pc = "parent"
    /\ LET parent == SplitHead(lastParent)
       IN  IF lastParent = parent
           THEN /\ pc' = "loop"
                /\ idx' = idx + 1
                /\ UNCHANGED <<dirs, lastParent, err, hist>>
           ELSE IF parent \notin dirs
           THEN /\ Raise(IF parent \in files THEN "ENOTDIR" ELSE "ENOENT")
                /\ UNCHANGED <<dirs, lastParent>>
           ELSE IF IsEmptyDir(parent)
           THEN IF PruneSkipped
                THEN /\ lastParent' = NewLastParent(parent)
                     /\ UNCHANGED <<dirs, pc, idx, err, hist>>
                ELSE IF RmdirErr(parent) = "none"
                THEN /\ dirs' = dirs \ {parent}
                     /\ lastParent' = NewLastParent(parent)
                     /\ hist' = [hist EXCEPT !.pruned = @ \cup {parent}]
                     /\ UNCHANGED <<pc, idx, err>>
                ELSE /\ Raise(RmdirErr(parent))
                     /\ UNCHANGED <<dirs, lastParent>>
           ELSE /\ pc' = "loop"
                /\ idx' = idx + 1
                /\ UNCHANGED <<dirs, lastParent, err, hist>>
    /\ UNCHANGED <<files, argVars, schedVars, pathsToTrim, toVisit, names, pos, dirsToRemove, run>>

TrimNext ==
    \/ TrimArchives
    \/ ForLoop
    \/ RemovePath
    \/ WalkVisit
    \/ Walking
    \/ RmdirSeen
    \/ RmdirPath
    \/ ParentStep

Next == TrimNext

Spec == Init /\ [][Next]_vars
-----------------------------------------------------------------------------
(* Properties of trimArchives *)

\* the descendants of archiveDir whose path the name filter matches
Candidates ==
    {p \in dirs \cup files :
        ArchiveDir \in Ancestors(p) /\ Search(NameFilter(ArchiveDir, filter), p)}

Max0(n) == IF n < 0 THEN 0 ELSE n
Deleted == (hist.dirs0 \cup hist.files0) \ (dirs \cup files)
Outside(t, p) == [d |-> {q \in t.d : ~Within(q, p)}, f |-> {q \in t.f : ~Within(q, p)}]
JustCalled == pc = "loop" /\ idx = 1

\* C1: for every retention count k >= 0, trimArchives selects exactly
\* max(0, count - k) entries of the sorted candidate list, and with k = 0 a
\* real run that returns has removed every matched entry.
C1_SelectsCountMinusKeep ==
    (run >= 1 /\ entriesToKeep >= 0) =>
        /\ Len(pathsToTrim) = Max0(Len(hist.matched) - entriesToKeep)
        /\ (entriesToKeep = 0 /\ testRun = 0 /\ pc = "done") => Candidates = {}

\* C2: the selected paths are a prefix of the ascending order of the
\* candidates: every selected path is less than every retained one, the keep
\* greatest candidates are never selected, and nothing is selected when there
\* are at most keep candidates.
C2_SelectedIsOldestPrefix ==
    JustCalled =>
        LET sel == Range(pathsToTrim)
            ret == Candidates \ sel
        IN  /\ sel \subseteq Candidates
            /\ Cardinality(sel) = Len(pathsToTrim)
            /\ \A i \in 1 .. (Len(pathsToTrim) - 1) : StrLess(pathsToTrim[i], pathsToTrim[i + 1])
            /\ \A a \in sel : \A b \in ret : StrLess(a, b)
            /\ \A c \in Candidates :
                  Cardinality({g \in Candidates : StrLess(c, g)}) < entriesToKeep => c \notin sel
            /\ Cardinality(Candidates) <= entriesToKeep => pathsToTrim = <<>>

C2_Witness ==
    /\ JustCalled
    /\ entriesToKeep = 2
    /\ Len(pathsToTrim) >= 2
    /\ Cardinality(Candidates \ Range(pathsToTrim)) = 2

\* C3: a call with a negative retention count is rejected with an error, and
\* no file or directory is deleted.
C3_NegativeKeepRejected ==
    entriesToKeep < 0 =>
        /\ pc \in {"idle", "raised"}
        /\ Deleted = {}

\* C4: ancestor pruning never removes the archive root and never inspects or
\* removes a directory above it (stated for the retention counts >= 0).
C4_PruningStaysBelowRoot ==
    entriesToKeep >= 0 =>
        /\ ArchiveDir \in dirs
        /\ R \in dirs
        /\ ~(pc = "parent" /\ lastParent = ArchiveDir)

\* C5: whatever is deleted is a selected (matching) path, lies inside one, or
\* is an ancestor directory of a removed path that pruning removed when it was
\* empty; no file outside the selected paths is deleted, and pruning never
\* tries to remove a directory that still holds an entry: it stops there.
C5_OnlySelectedOrEmptyAncestors ==
    /\ \A s \in hist.selected : Search(NameFilter(ArchiveDir, filter), s)
    /\ \A p \in Deleted : (\E s \in hist.selected : Within(p, s)) \/ p \in hist.pruned
    /\ \A p \in Deleted \cap hist.files0 : \E s \in hist.selected : Within(p, s)
    /\ \A d \in hist.pruned : \E s \in hist.removed : d \in Ancestors(s)
    /\ ~(err = "ENOTEMPTY" /\ hist.raisedAt = "parent")
    /\ (pc = "loop" /\ idx > 1 /\ removeParentIfEmpty # 0 /\ testRun = 0) =>
          \E a \in Ancestors(pathsToTrim[idx - 1]) :
              /\ a \in dirs
              /\ a # Root => Listdir(a) # {}
              /\ \A b \in Ancestors(pathsToTrim[idx - 1]) : a \in Ancestors(b) => b \in hist.pruned

C5_Witness ==
    /\ pc = "done"
    /\ testRun = 0
    /\ removeParentIfEmpty # 0
    /\ S1 \in hist.removed
    /\ Listdir(M1) = {README}

\* C6: in a test run trimArchives selects what a real run on the same tree
\* and arguments selects, and the tree stays as it was: nothing is deleted,
\* no snapshot removed, no ancestor pruned.
C6_TestRunLeavesTree ==
    testRun # 0 =>
        /\ Tree = [d |-> hist.dirs0, f |-> hist.files0]
        /\ hist.pruned = {}
        /\ hist.removed = {}
        /\ run >= 1 => pathsToTrim = SelectForRemoval(MatchingPaths, entriesToKeep)

C6_Witness ==
    /\ testRun # 0
    /\ pc = "done"
    /\ removeParentIfEmpty # 0
    /\ Len(pathsToTrim) >= 2

C8_RemovalConfinedBottomUp ==
    /\ pc \in {"remove", "visit", "walking", "rmdirs", "rmdirPath"} =>
          Outside(Tree, PathToRemove) = Outside(hist.before, PathToRemove)
    /\ pc = "rmdirPath" =>
          \A q \in dirs \cup files : Within(q, PathToRemove) => q = PathToRemove
    /\ (pc = "parent" /\ lastParent = PathToRemove /\ testRun = 0) =>
          Tree = Outside(hist.before, PathToRemove)
    /\ ~(err = "ENOTEMPTY" /\ hist.raisedAt \in {"rmdirs", "rmdirPath"})

C8_Witness ==
    /\ pc = "parent"
    /\ lastParent = S1
    /\ testRun = 0
    /\ {S1, D1, E1} \subseteq hist.before.d
    /\ F1 \in hist.before.f
    /\ S2 \in dirs

\* C9 as stated: a failure on one selected path does not end the batch; when
\* the call ends every selected path has been attempted.
C9_AllSelectedAttempted ==
    (run >= 1 /\ pc \in {"done", "raised"}) => hist.attempted = Range(pathsToTrim)

\* C9 amended: a failure on one selected path ends the batch: the OSError
\* leaves trimArchives at once, and the selected paths after the failing one
\* are not attempted.
C9_FailureEndsBatch ==
    err # "none" =>
        /\ pc = "raised"
        /\ idx <= Len(pathsToTrim)
        /\ hist.attempted = Range(SubSeq(pathsToTrim, 1, idx))
        /\ \A j \in (idx + 1) .. Len(pathsToTrim) : pathsToTrim[j] \notin hist.attempted

C9_Witness ==
    /\ pc = "raised"
    /\ err = "EACCES"
    /\ idx < Len(pathsToTrim)
    /\ Exists(pathsToTrim[idx + 1])

-----------------------------------------------------------------------------
(* The last-run bookkeeping *)

TrimIdle ==
    /\ dirs = TreeOf({S1, S2, S3}).d
    /\ files = {}
    /\ denied = {}
    /\ filter = NoFilter
    /\ entriesToKeep = 0
    /\ removeParentIfEmpty = 1
    /\ pc = "idle"
    /\ pathsToTrim = <<>>
    /\ idx = 1
    /\ lastParent = <<>>
    /\ toVisit = <<>>
    /\ names = <<>>
    /\ pos = 1
    /\ dirsToRemove = <<>>
    /\ err = "none"
    /\ run = 0
    /\ hist = Hist0

\* lines 46-56: __init__, with a last-run file in any condition
InitSched ==
    /\ TrimIdle
    /\ testRun \in {0, 1}
    /\ clock = 0
    /\ ticks = 0
    /\ zone \in Zones
    /\ lrf \in {Absent, NoAccess, Garbage, AscTime(Gmtime)}
    /\ lrfBefore = lrf
    /\ backupStarted = Gmtime
    /\ result = -1
    /\ interval = 0
    /\ archives = <<>>
    /\ obs = Obs0

\* lines 72-74: lastTime + backupInterval * 60 < nowTime
IntervalElapsed(oldTime, backupInterval) ==
    LET lastTime == Mktime(StrpTime(oldTime))
        nowTime  == Mktime(Gmtime)
    IN  lastTime + backupInterval * 60 < nowTime

\* lines 58-81
TimeToBackup(backupInterval) ==
    /\ interval' = backupInterval
    /\ lrfBefore' = lrf
    /\ IF lrf.kind # "text"
       THEN /\ backupStarted' = Gmtime            \* lines 68-70
            /\ result' = 1
       ELSE IF ~lrf.parses
       THEN /\ backupStarted' = Gmtime            \* lines 79-81
            /\ result' = 1
       ELSE IF IntervalElapsed(lrf, backupInterval)
       THEN /\ backupStarted' = Gmtime            \* lines 75-76
            /\ result' = 1
       ELSE /\ backupStarted' = backupStarted     \* line 78
            /\ result' = 0
    /\ obs' = IF result' = 1
              THEN [t |-> clock, fin |-> FALSE, last |-> IF obs.fin THEN obs.t ELSE -1]
              ELSE obs
    /\ UNCHANGED <<fsVars, argVars, trimVars, lrf, clock, zone, ticks, archives>>

\* lines 169-180
Finish ==
    /\ IF testRun # 0 \/ lrf.kind = "noaccess"
       THEN lrf' = lrf
       ELSE lrf' = AscTime(backupStarted)
    /\ result' = -1
    /\ obs' = [obs EXCEPT !.fin = (obs.t # -1)]
    /\ UNCHANGED <<fsVars, argVars, trimVars, lrfBefore, clock, zone, ticks, backupStarted, interval,
                   archives>>

\* time passes
Tick(d) ==
    /\ ticks < MaxTicks
    /\ ticks' = ticks + 1
    /\ clock' = clock + d
    /\ result' = -1
    /\ UNCHANGED <<fsVars, argVars, trimVars, lrf, lrfBefore, zone, backupStarted, interval, archives,
                   obs>>

NextSched ==
    \/ \E i \in Intervals : TimeToBackup(i)
    \/ Finish
    \/ \E d \in TickSteps : Tick(d)

SpecSched == InitSched /\ [][NextSched]_vars
-----------------------------------------------------------------------------
(* Properties of the last-run bookkeeping *)

\* C10: timeToBackup(interval) returns true when the last-run file is absent,
\* unreadable or unparsable, and otherwise exactly when the recorded time plus
\* interval minutes is earlier than the current time; it leaves the file as
\* it was.
C10_TrueExactlyWhenIntervalElapsed ==
    result # -1 =>
        /\ lrf = lrfBefore
        /\ result = IF lrfBefore.kind # "text" \/ ~lrfBefore.parses THEN 1
                    ELSE IF lrfBefore.wall + interval * 60 < clock THEN 1
                    ELSE 0

-----------------------------------------------------------------------------
(* Further properties of trimArchives *)

\* C11: with removeParentIfEmpty = 0 trimArchives removes only the selected
\* paths and what lies beneath them: no directory is pruned, and no ancestor
\* of a removed path is removed, whether it has become empty or not.
C11_NoPruningWhenDisabled ==
    removeParentIfEmpty = 0 =>
        /\ pc # "parent"
        /\ hist.pruned = {}
        /\ \A p \in Deleted : \E s \in hist.selected : Within(p, s)
        /\ \A s \in hist.removed : \A a \in Ancestors(s) :
               a \in hist.selected \/ a \in dirs

\* a real run without pruning has removed both snapshots of a month and has
\* left the month's directory empty
C11_Witness ==
    /\ removeParentIfEmpty = 0 /\ testRun = 0 /\ pc = "done"
    /\ filter = NoFilter
    /\ {S1, S2} \subseteq hist.removed
    /\ M1 \in dirs /\ Listdir(M1) = {}

\* C12: the path matcher returns exactly the descendants of the root, at any
\* depth, whose full path the pattern matches, each of them once and never
\* the root itself, and the walk leaves the filesystem as it was.
C12_WalkerReturnsMatchingDescendants ==
    JustCalled =>
        /\ Range(hist.matched) = Candidates
        /\ Len(hist.matched) = Cardinality(Candidates)
        /\ ArchiveDir \notin Range(hist.matched)
        /\ run = 1 => Tree = [d |-> hist.dirs0, f |-> hist.files0]
        /\ run = 2 => Tree = hist.end1

\* the pattern matches the root's own path and two files three levels down
C12_Witness ==
    /\ JustCalled
    /\ Search(NameFilter(ArchiveDir, filter), ArchiveDir)
    /\ {F1, F2} \subseteq Range(hist.matched)
    /\ E1 \in dirs
-----------------------------------------------------------------------------
(* backup: the name of the archive directory *)

\* instants are UTC calendar times; the ones drawn lie on both sides of a year's
\* end, of the ends of months and days, and of the start and end of daylight
\* saving time
Years   == {2020, 2021}
Months  == {3, 10, 12}
Days    == {2, 10, 31}
Hours   == {0, 1, 23}
Minutes == {10, 30}
Instants ==
    [year : Years, mon : Months, mday : Days, hour : Hours, min : Minutes, sec : {0}]

Fields(t) == <<t.year, t.mon, t.mday, t.hour, t.min, t.sec>>

\* lexicographic order of equally long tuples of numbers
RECURSIVE TupleLess(_, _)
TupleLess(a, b) ==
    /\ a # <<>>
    /\ \/ Head(a) < Head(b)
       \/ Head(a) = Head(b) /\ TupleLess(Tail(a), Tail(b))

\* t is an earlier instant than u
Earlier(t, u) == TupleLess(Fields(t), Fields(u))

LeapYear(y) == (y % 4 = 0 /\ y % 100 # 0) \/ y % 400 = 0
DaysIn(y, m) ==
    IF m = 2 THEN (IF LeapYear(y) THEN 29 ELSE 28)
    ELSE IF m \in {4, 6, 9, 11} THEN 30 ELSE 31

\* the zone's daylight saving time runs from the last Sunday of March to the
\* last Sunday of October, 01:00 UTC
LastSunday(y, m) ==
    IF m = 3 THEN (IF y = 2020 THEN 29 ELSE 28) ELSE (IF y = 2020 THEN 25 ELSE 31)
InSummerTime(t) ==
    /\ ~TupleLess(Fields(t), <<t.year, 3, LastSunday(t.year, 3), 1, 0, 0>>)
    /\ TupleLess(Fields(t), <<t.year, 10, LastSunday(t.year, 10), 1, 0, 0>>)

\* time.localtime(): the instant's calendar time on the local clock
LocalTime(t) ==
    LET off  == (zone.std \div 3600) + (IF zone.dst /\ InSummerTime(t) THEN 1 ELSE 0)
        h    == t.hour + off
        over == h >= 24
        d    == IF over THEN t.mday + 1 ELSE t.mday
        dOv  == d > DaysIn(t.year, t.mon)
        m    == IF dOv THEN t.mon + 1 ELSE t.mon
    IN  [year |-> IF m > 12 THEN t.year + 1 ELSE t.year,
         mon  |-> IF m > 12 THEN 1 ELSE m,
         mday |-> IF dOv THEN 1 ELSE d,
         hour |-> IF over THEN h - 24 ELSE h,
         min  |-> t.min,
         sec  |-> t.sec]

\* %d, %m, %H, %M, %S: two digits; %Y: four digits
P2(n) == DigitStr(<<n \div 10, n % 10>>)
P4(n) == DigitStr(<<n \div 1000, (n \div 100) % 10, (n \div 10) % 10, n % 10>>)

\* line 94: time.strftime("%d%m%Y-%H%M%S"), of the local time
StrfTime(l) ==
    P2(l.mday) \o P2(l.mon) \o P4(l.year) \o Dash \o P2(l.hour) \o P2(l.min) \o P2(l.sec)

\* s[a:b] for 0 <= a <= b <= len(s)
Slice(s, a, b) == SubSeq(s, a + 1, b)

\* line 96: os.path.join(archive, dateTime[4:8], dateTime[2:4], dateTime)
ThisArchive(archive, dateTime) ==
    Join(Join(Join(archive, Slice(dateTime, 4, 8)), Slice(dateTime, 2, 4)), dateTime)

InitNaming ==
    /\ TrimIdle
    /\ testRun = 0
    /\ lrf = Absent
    /\ lrfBefore = Absent
    /\ clock = 0
    /\ zone \in Zones
    /\ ticks = 0
    /\ backupStarted = Gmtime
    /\ result = -1
    /\ interval = 0
    /\ archives = <<>>
    /\ obs = Obs0

\* lines 83-115: backup(source, destination, archive) called at instant t, later
\* than the call before; rsync is handed thisArchive as its --backup-dir
Backup(t) ==
    /\ Len(archives) < MaxBackups
    /\ archives # <<>> => Earlier(Last(archives).at, t)
    /\ archives' = Append(archives, [at |-> t, path |-> ThisArchive(ArchiveDir, StrfTime(LocalTime(t)))])
    /\ UNCHANGED <<fsVars, argVars, trimVars, lrf, lrfBefore, clock, zone, ticks, backupStarted,
                   result, interval, obs>>

NextNaming == \E t \in Instants : Backup(t)

SpecNaming == InitNaming /\ [][NextNaming]_vars

\* C13: of two archive directories that backup() composed under the same
\* archive root at two different times, the one composed earlier has the
\* lexicographically smaller path, so the ascending sort puts the oldest first.
C13_PathOrderIsTimeOrder ==
    \A i, j \in DOMAIN archives :
        Earlier(archives[i].at, archives[j].at) => StrLess(archives[i].path, archives[j].path)

-----------------------------------------------------------------------------
(* Properties of the ancestor pruning *)

\* the selected paths that the latest call has removed
RemovedNow == hist.attempted \cap hist.removed
BelowArchiveDir(p) == ArchiveDir \in Ancestors(p)

SubTree(t, u) == t.d \subseteq u.d /\ t.f \subseteq u.f

\* C15: a deletion that fails ends trimArchives with the error: a call that
\* returns normally has removed every selected path; after the error no
\* further deletion or pruning step is made (the tree stays as it was when the
\* error was raised, and the paths after the failing one are not attempted),
\* and what was deleted before the error stays deleted.
C15_FailureSurfacedNoRollback ==
    /\ err # "none" => pc = "raised"
    /\ (pc = "done" /\ testRun = 0) => \A s \in Range(pathsToTrim) : ~Exists(s)
    /\ pc = "raised" =>
          /\ err # "none"
          /\ Tree = hist.atRaise
          /\ SubTree(Tree, hist.before)
          /\ hist.attempted = {pathsToTrim[i] : i \in 1 .. idx}
          /\ \A s \in RemovedNow : ~Exists(s)

\* the second selected snapshot could not be removed: the first one is gone,
\* and so is the file that was deleted inside the second one before its
\* rmdir failed
C15_Witness ==
    /\ pc = "raised" /\ err = "EACCES"
    /\ filter = NoFilter /\ entriesToKeep >= 1
    /\ idx = 2 /\ PathToRemove = S2
    /\ RemovedNow = {S1} /\ ~Exists(S1)
    /\ F2 \in hist.before.f /\ ~Exists(F2) /\ Exists(S2)

\* C16: for every filter, removing one selected path deletes no other
\* matched path: in a real run every selected path still exists when its
\* removal is attempted, and every matched path that was retained still exists
\* when trimArchives returns; with the default pattern no candidate is an
\* ancestor of another one.
C16_MatchedPathsIndependent ==
    (testRun = 0 /\ entriesToKeep >= 0) =>
        /\ pc \in {"remove", "visit", "walking", "rmdirs", "rmdirPath"} => Exists(PathToRemove)
        /\ pc = "done" => \A p \in Range(hist.matched) \ Range(pathsToTrim) : Exists(p)
        /\ filter = NoFilter => \A p, q \in Candidates : p \notin Ancestors(q)

-----------------------------------------------------------------------------
(* Further properties of the last-run bookkeeping *)

\* C17: without testRun and with a writable last-run file: when timeToBackup
\* returned true at time T and finish() was called then, the file holds T;
\* every later timeToBackup(interval) returns false as long as no more than
\* interval minutes have passed since T, and true afterwards; and the start
\* time that finish() will record is the T of the latest true return, so a
\* call that returns false leaves it alone.
C17_NextBackupAfterIntervalFromStart ==
    (testRun = 0 /\ lrf.kind # "noaccess") =>
        /\ obs.t # -1 => backupStarted.wall = obs.t
        /\ obs.fin => lrf = [kind |-> "text", parses |-> TRUE, wall |-> obs.t]
        /\ (obs.fin /\ result # -1) => (result = 0 /\ clock - obs.t <= interval * 60)
        /\ (result = 1 /\ obs.last # -1) => clock - obs.last > interval * 60

-----------------------------------------------------------------------------
(* Termination of trimArchives *)

\* the steps of a trimArchives call that is under way
TrimStep ==
    \/ ForLoop
    \/ RemovePath
    \/ WalkVisit
    \/ Walking
    \/ RmdirSeen
    \/ RmdirPath
    \/ ParentStep

\* the initial states without the second snapshot of the first month
InitLive ==
    /\ Init
    /\ {S2, F2} \cap (dirs \cup files) = {}
    /\ denied \in {{}, {S1}}

\* a call that is under way goes on with its next step; whether the caller
\* calls at all, or again, is left open
SpecLive == InitLive /\ [][Next]_vars /\ WF_vars(TrimStep)

Running == pc \notin {"idle", "done", "raised"}

\* C18: every turn of the ancestor loop either leaves the loop (the parent is
\* not empty, the path is its own parent, or an error is raised) or goes on
\* with the parent, a strictly shorter path; the loop is left for every
\* removed path, and every trimArchives call comes to an end.
C18_PruningTerminates ==
    /\ [][pc = "parent" =>
            \/ pc' \in {"loop", "raised"}
            \/ /\ pc' = "parent"
               /\ lastParent' = SplitHead(lastParent)
               /\ Len(lastParent') < Len(lastParent)]_vars
    /\ (pc = "parent") ~> (pc # "parent")
    /\ Running ~> ~Running

\* a real run whose ancestor loop went up two levels or more and has ended
C18_Witness ==
    /\ testRun = 0 /\ pc = "done"
    /\ Cardinality(hist.pruned) >= 2
====
